---- MODULE Spec2Model ----
(***************************************************************************)
(* The Stack trait, its LIFOEntry proof object and the Vec<T> adapter of   *)
(* src/src/lib.rs as a state machine over one container.                   *)
(*                                                                         *)
(* A reference into the Vec (&T / &mut T returned by last / last_mut) is   *)
(* modelled as the 1-based index of the element it points to.  An          *)
(* Option<X> is <<"None">> or <<"Some", x>>.  The exclusive borrow held by *)
(* LIFOEntry(&'a mut C) is the variable `borrow`; every method taking      *)
(* &self or &mut self on the container is enabled only while it is free.   *)
(***************************************************************************)
EXTENDS Integers, Sequences, FiniteSets, TLC

\* ---------------------------------------------------------------- bounds
MaxLen == 3
MaxItem == 2
MaxHist == 6
MaxEntries == 2

Items == 1..MaxItem

VARIABLES
    stack,    \* the Vec<T>: a sequence of items, last element = top
    entries,  \* number of LIFOEntry objects alive for the container
    borrow,   \* "free" or "mut": the &'a mut C held by a LIFOEntry
    ub,       \* TRUE once an unwrap_unchecked was executed on None
    op,       \* name of the last operation executed
    arg,      \* its item argument (0 when it has none)
    ret,      \* its result
    pre,      \* the Vec as it was before the last operation
    hist,     \* the calls made so far that push or pop: <<"push", v>>, <<"pop">>
              \* (a write to an element restarts it from the Vec's contents)
    life      \* the life of the current (or most recent) entry: the call that
              \* made it, the Vec before and after that call, and the last
              \* value written / read through the entry (0 when none)

vars == <<stack, entries, borrow, ub, op, arg, ret, pre, hist, life>>

\* ---------------------------------------------------------------- values
None == <<"None">>
Some(x) == <<"Some", x>>
IsSome(o) == o[1] = "Some"
Unit == <<>>
NoArg == 0

RECURSIVE SeqsUpTo(_)
SeqsUpTo(n) ==
    IF n = 0 THEN {<<>>}
    ELSE LET S == SeqsUpTo(n - 1)
         IN  S \cup {Append(s, x) : s \in {t \in S : Len(t) = n - 1}, x \in Items}

Front(s) == SubSeq(s, 1, Len(s) - 1)

NoLife ==
    [op |-> "none", arg |-> NoArg, before |-> <<>>, after |-> <<>>,
     wrote |-> NoArg, read |-> NoArg]

Born(o, a, before, after) ==
    [op |-> o, arg |-> a, before |-> before, after |-> after,
     wrote |-> NoArg, read |-> NoArg]

PushesOf(s) == [i \in 1..Len(s) |-> <<"push", s[i]>>]

\* ------------------------------------------------- LIFOEntry construction
\* LIFOEntry::new(stack: &'a mut C) -> Self(stack): one more entry alive, and
\* the exclusive borrow of the container is held for the entry's lifetime.
LIFOEntry_new_raw(n) == [entries |-> n + 1, borrow |-> "free"]

LIFOEntry_new(n) == [entries |-> n + 1, borrow |-> "mut"]

NoEntry(n) == [entries |-> n, borrow |-> "free"]

\* ------------------------------------------------------- impl Stack for Vec
s_is_empty_mut(s) == Len(s) <= 1

s_is_empty(s) == Len(s) = 0

s_push_front(s, item) == <<item>> \o s

s_push(s, item) == Append(s, item)

s_pop_front(s) ==
    IF Len(s) = 0 THEN [ret |-> None, stack |-> s]
    ELSE [ret |-> Some(s[1]), stack |-> SubSeq(s, 2, Len(s))]

s_pop(s) ==
    IF Len(s) = 0 THEN [ret |-> None, stack |-> s]
    ELSE [ret |-> Some(s[Len(s)]), stack |-> SubSeq(s, 1, Len(s) - 1)]

lifo_ref_first(s) == IF Len(s) = 0 THEN None ELSE Some(1)

lifo_ref(s) == IF Len(s) = 0 THEN None ELSE Some(Len(s))

lifo_mut_first(s) == IF Len(s) = 0 THEN None ELSE Some(1)

lifo_mut(s) == IF Len(s) = 0 THEN None ELSE Some(Len(s))

\* ------------------------------------------------- trait default methods
s_push_checked_noop(s, item) == [ret |-> Some(Unit), stack |-> s]

s_push_checked(s, item) == [ret |-> Some(Unit), stack |-> s_push(s, item)]

lifo_nocheck(s, n) == Some(LIFOEntry_new(n))

lifo(s, n) == IF s_is_empty(s) THEN None ELSE Some(LIFOEntry_new(n))

\* Option::unwrap_unchecked: the payload of Some; on None the behaviour is
\* undefined, modelled as any value of `garbage` with the ub flag raised.
unwrap_unchecked(o, garbage) ==
    IF IsSome(o) THEN {[val |-> o[2], ub |-> FALSE]}
    ELSE {[val |-> v, ub |-> TRUE] : v \in garbage}

Refs == 0..(MaxLen + 1)

\* what a read / a write through reference r does to Vec s
ReadRef(s, r) == IF r \in 1..Len(s) THEN {s[r]} ELSE Items

WriteRef(s, r, v) == IF r \in 1..Len(s) THEN [s EXCEPT ![r] = v] ELSE s

s_pop_unchecked_front(s) ==
    LET p == s_pop_front(s)
    IN  {[val |-> u.val, ub |-> u.ub, stack |-> p.stack] :
            u \in unwrap_unchecked(p.ret, Items)}

s_pop_unchecked(s) ==
    LET p == s_pop(s)
    IN  {[val |-> u.val, ub |-> u.ub, stack |-> p.stack] :
            u \in unwrap_unchecked(p.ret, Items)}

lifo_unchecked(s, n) ==
    unwrap_unchecked(lifo(s, n), {LIFOEntry_new(n), NoEntry(n)})

lifo_ref_unchecked(s) == unwrap_unchecked(lifo_ref(s), Refs)

lifo_mut_unchecked(s) == unwrap_unchecked(lifo_mut(s), Refs)

\* --------------------------------------------------------------- initial
Init ==
    /\ stack \in SeqsUpTo(MaxLen)
    /\ entries = 0
    /\ borrow = "free"
    /\ ub = FALSE
    /\ op = "init"
    /\ arg = NoArg
    /\ ret = None
    /\ pre = stack
    /\ hist = PushesOf(stack)
    /\ life = NoLife

\* A method on the container needs the container not to be exclusively
\* borrowed by a live LIFOEntry (the borrow checker's rule for &self/&mut self).
CanBorrow == ~ub /\ borrow = "free" /\ entries < MaxEntries

CanRecord == Len(hist) < MaxHist

Record(o, a, r) ==
    /\ op' = o
    /\ arg' = a
    /\ ret' = r
    /\ pre' = stack

\* ------------------------------------------------ safe container methods
Call_s_is_empty ==
    /\ CanBorrow
    /\ Record("s_is_empty", NoArg, <<"Bool", s_is_empty(stack)>>)
    /\ life' = NoLife
    /\ UNCHANGED <<stack, entries, borrow, ub, hist>>

Call_s_push(item) ==
    /\ CanBorrow /\ CanRecord /\ Len(stack) < MaxLen
    /\ stack' = s_push(stack, item)
    /\ Record("s_push", item, <<"Unit">>)
    /\ hist' = Append(hist, <<"push", item>>)
    /\ life' = NoLife
    /\ UNCHANGED <<entries, borrow, ub>>

Call_s_push_checked(item) ==
    /\ CanBorrow /\ CanRecord /\ Len(stack) < MaxLen
    /\ LET r == s_push_checked(stack, item)
       IN  /\ stack' = r.stack
           /\ Record("s_push_checked", item, r.ret)
    /\ hist' = Append(hist, <<"push", item>>)
    /\ life' = NoLife
    /\ UNCHANGED <<entries, borrow, ub>>

\* Vec::lifo_push: self.push(item); unsafe { self.lifo_unchecked() }
Call_lifo_push(item) ==
    /\ CanBorrow /\ CanRecord /\ Len(stack) < MaxLen
    /\ LET s1 == s_push(stack, item)
       IN  \E u \in lifo_unchecked(s1, entries) :
             /\ stack' = s1
             /\ entries' = u.val.entries
             /\ borrow' = u.val.borrow
             /\ ub' = u.ub
             /\ life' = Born("lifo_push", item, stack, s1)
    /\ Record("lifo_push", item, <<"Entry">>)
    /\ hist' = Append(hist, <<"push", item>>)

Call_s_pop ==
    /\ CanBorrow /\ CanRecord
    /\ LET r == s_pop(stack)
       IN  /\ stack' = r.stack
           /\ Record("s_pop", NoArg, r.ret)
    /\ hist' = Append(hist, <<"pop">>)
    /\ life' = NoLife
    /\ UNCHANGED <<entries, borrow, ub>>

Call_lifo ==
    /\ CanBorrow
    /\ LET r == lifo(stack, entries)
       IN  IF IsSome(r)
           THEN /\ entries' = r[2].entries
                /\ borrow' = r[2].borrow
                /\ Record("lifo", NoArg, <<"Some", "Entry">>)
                /\ life' = Born("lifo", NoArg, stack, stack)
           ELSE /\ UNCHANGED <<entries, borrow>>
                /\ Record("lifo", NoArg, None)
                /\ life' = NoLife
    /\ UNCHANGED <<stack, ub, hist>>

\* lifo_ref(), and the caller reading through the reference when there is one
Call_lifo_ref ==
    /\ CanBorrow
    /\ LET r == lifo_ref(stack)
       IN  IF IsSome(r)
           THEN \E v \in ReadRef(stack, r[2]) :
                    Record("lifo_ref", NoArg, <<"Some", r[2], v>>)
           ELSE Record("lifo_ref", NoArg, None)
    /\ life' = NoLife
    /\ UNCHANGED <<stack, entries, borrow, ub, hist>>

\* lifo_mut(), and the caller writing v through the reference when there is one
Call_lifo_mut(v) ==
    /\ CanBorrow
    /\ LET r == lifo_mut(stack)
       IN  IF IsSome(r)
           THEN /\ stack' = WriteRef(stack, r[2], v)
                /\ Record("lifo_mut", v, <<"Some", r[2]>>)
           ELSE /\ stack' = stack
                /\ Record("lifo_mut", v, None)
    /\ hist' = PushesOf(stack')
    /\ life' = NoLife
    /\ UNCHANGED <<entries, borrow, ub>>

\* ------------------------------------------------------ LIFOEntry methods
HasEntry == ~ub /\ entries > 0

Release ==
    /\ entries' = entries - 1
    /\ borrow' = IF entries = 1 THEN "free" ELSE borrow

\* LIFOEntry::pop(self): unsafe { stack.s_pop_unchecked() }; self is consumed
Entry_pop ==
    /\ HasEntry /\ CanRecord
    /\ \E u \in s_pop_unchecked(stack) :
          /\ stack' = u.stack
          /\ ub' = u.ub
          /\ Record("entry_pop", NoArg, <<"Item", u.val>>)
    /\ Release
    /\ hist' = Append(hist, <<"pop">>)
    /\ UNCHANGED life

\* Deref::deref(&self): unsafe { stack.lifo_ref_unchecked() }, then the read
Entry_deref ==
    /\ HasEntry
    /\ \E u \in lifo_ref_unchecked(stack) :
          /\ ub' = u.ub
          /\ \E v \in ReadRef(stack, u.val) :
                /\ Record("deref", NoArg, <<"Item", v>>)
                /\ life' = [life EXCEPT !.read = v]
    /\ UNCHANGED <<stack, entries, borrow, hist>>

\* DerefMut::deref_mut(&mut self): unsafe { stack.lifo_mut_unchecked() },
\* then the write `*entry = v`
Entry_deref_mut(v) ==
    /\ HasEntry
    /\ \E u \in lifo_mut_unchecked(stack) :
          /\ ub' = u.ub
          /\ stack' = WriteRef(stack, u.val, v)
    /\ Record("deref_mut", v, <<"Unit">>)
    /\ hist' = PushesOf(stack')
    /\ life' = [life EXCEPT !.wrote = v]
    /\ UNCHANGED <<entries, borrow>>

\* drop(entry): LIFOEntry has no Drop impl; only the borrow ends
Entry_drop ==
    /\ HasEntry
    /\ Release
    /\ Record("entry_drop", NoArg, <<"Unit">>)
    /\ UNCHANGED <<stack, ub, hist, life>>

\* ------------------------------------------------------- unsafe methods
Call_s_pop_unchecked ==
    /\ CanBorrow /\ CanRecord
    /\ \E u \in s_pop_unchecked(stack) :
          /\ stack' = u.stack
          /\ ub' = u.ub
          /\ Record("s_pop_unchecked", NoArg, <<"Item", u.val>>)
    /\ hist' = Append(hist, <<"pop">>)
    /\ life' = NoLife
    /\ UNCHANGED <<entries, borrow>>

Call_lifo_unchecked ==
    /\ CanBorrow
    /\ \E u \in lifo_unchecked(stack, entries) :
          /\ entries' = u.val.entries
          /\ borrow' = u.val.borrow
          /\ ub' = u.ub
    /\ Record("lifo_unchecked", NoArg, <<"Entry">>)
    /\ life' = Born("lifo_unchecked", NoArg, stack, stack)
    /\ UNCHANGED <<stack, hist>>

Call_lifo_ref_unchecked ==
    /\ CanBorrow
    /\ \E u \in lifo_ref_unchecked(stack) :
          /\ ub' = u.ub
          /\ \E v \in ReadRef(stack, u.val) :
                Record("lifo_ref_unchecked", NoArg, <<"Ref", u.val, v>>)
    /\ life' = NoLife
    /\ UNCHANGED <<stack, entries, borrow, hist>>

Call_lifo_mut_unchecked(v) ==
    /\ CanBorrow
    /\ \E u \in lifo_mut_unchecked(stack) :
          /\ ub' = u.ub
          /\ stack' = WriteRef(stack, u.val, v)
          /\ Record("lifo_mut_unchecked", v, <<"Ref", u.val>>)
    /\ hist' = PushesOf(stack')
    /\ life' = NoLife
    /\ UNCHANGED <<entries, borrow>>

\* unsafe LIFOEntry::new(&mut stack) called directly: no check at all
Call_LIFOEntry_new ==
    /\ CanBorrow
    /\ LET e == LIFOEntry_new(entries)
       IN  /\ entries' = e.entries
           /\ borrow' = e.borrow
    /\ Record("LIFOEntry_new", NoArg, <<"Entry">>)
    /\ life' = Born("LIFOEntry_new", NoArg, stack, stack)
    /\ UNCHANGED <<stack, ub, hist>>

\* ---------------------------------------------------------- specifications
\* every safe operation
Next ==
    \/ Call_s_is_empty
    \/ \E item \in Items : Call_s_push(item)
    \/ \E item \in Items : Call_s_push_checked(item)
    \/ \E item \in Items : Call_lifo_push(item)
    \/ Call_s_pop
    \/ Call_lifo
    \/ Call_lifo_ref
    \/ \E v \in Items : Call_lifo_mut(v)
    \/ Entry_pop
    \/ Entry_deref
    \/ \E v \in Items : Entry_deref_mut(v)
    \/ Entry_drop

Spec == Init /\ [][Next]_vars

\* pushes and pops only (no write to an element)
NextLIFO ==
    \/ \E item \in Items : Call_s_push(item)
    \/ \E item \in Items : Call_s_push_checked(item)
    \/ \E item \in Items : Call_lifo_push(item)
    \/ Call_s_pop
    \/ Call_lifo
    \/ Entry_pop
    \/ Entry_drop

SpecLIFO == Init /\ [][NextLIFO]_vars

\* the safe operations and the unsafe ones
NextUnchecked ==
    \/ Next
    \/ Call_s_pop_unchecked
    \/ Call_lifo_unchecked
    \/ Call_lifo_ref_unchecked
    \/ \E v \in Items : Call_lifo_mut_unchecked(v)
    \/ Call_LIFOEntry_new

SpecUnchecked == Init /\ [][NextUnchecked]_vars

\* ================================================================ claims
Top(s) == s[Len(s)]

SameBelowTop(s, t) ==
    /\ Len(s) = Len(t)
    /\ \A i \in 1..(Len(s) - 1) : s[i] = t[i]

\* The most recently pushed value of call history h that no later pop has
\* taken, skipping `skip` more of them; None when there is none.
RECURSIVE LastUnpopped(_, _)
LastUnpopped(h, skip) ==
    IF Len(h) = 0 THEN None
    ELSE LET e == h[Len(h)]
         IN  IF e[1] = "pop" THEN LastUnpopped(Front(h), skip + 1)
             ELSE IF skip = 0 THEN Some(e[2])
             ELSE LastUnpopped(Front(h), skip - 1)

\* C1: strict LIFO order.  After any sequence of s_push / s_push_checked /
\* lifo_push and s_pop / LIFOEntry::pop calls, a pop returns the most recently
\* pushed value not yet popped (initial contents count as pushed in index
\* order), and s_pop returns None exactly when there is no such value.
C1_StrictLIFO ==
    /\ op = "s_pop" => ret = LastUnpopped(Front(hist), 0)
    /\ op = "entry_pop" =>
          LET want == LastUnpopped(Front(hist), 0)
          IN  IsSome(want) /\ ret = <<"Item", want[2]>>

\* two pops in a row after pushes: the second returns an older push
C1_Witness ==
    /\ op \in {"s_pop", "entry_pop"}
    /\ Len(hist) >= 4
    /\ hist[Len(hist) - 1] = <<"pop">>
    /\ hist[Len(hist) - 2][1] = "push"
    /\ hist[Len(hist) - 3][1] = "push"
    /\ ret[2] = hist[Len(hist) - 3][2]
    /\ ret[2] # hist[Len(hist) - 2][2]

\* C2: s_is_empty() is true iff s_pop() in that state would return None.
C2_EmptyIffPopNone ==
    /\ s_is_empty(stack) <=> (s_pop(stack).ret = None)
    /\ op = "s_pop" => ((ret = None) <=> s_is_empty(pre))
    /\ op = "s_is_empty" => (ret[2] <=> (s_pop(stack).ret = None))

C2_Witness ==
    /\ op = "s_pop"
    /\ ret = None
    /\ s_is_empty(pre)
    /\ Len(hist) >= 2

\* C3: with the safe operations only, a live LIFOEntry implies a non-empty
\* container: lifo() returns Some only on a non-empty container, lifo_push
\* builds its entry on a non-empty container, and no unwrap_unchecked inside
\* LIFOEntry::pop / deref / deref_mut / lifo_push ever meets None.
C3_EntryImpliesNonEmpty ==
    /\ ~ub
    /\ entries > 0 => ~s_is_empty(stack)
    /\ (op = "lifo" /\ IsSome(ret)) => (~s_is_empty(pre) /\ entries = 1)
    /\ op = "lifo_push" => (entries = 1 /\ Len(stack) >= 1)
    /\ op \in {"entry_pop", "deref", "deref_mut"} => ~s_is_empty(pre)

C3_Witness ==
    /\ op = "deref_mut"
    /\ entries = 1
    /\ Len(stack) = 1
    /\ life.op = "lifo"

\* C4: on a non-empty container every unchecked operation returns what its
\* checked counterpart holds in Some, and leaves the same container.
C4_UncheckedAgreesWithChecked ==
    /\ (op = "s_pop_unchecked" /\ Len(pre) > 0) =>
          /\ ~ub
          /\ ret = <<"Item", Top(pre)>>
          /\ ret[2] = s_pop(pre).ret[2]
          /\ stack = s_pop(pre).stack
    /\ (op = "lifo_ref_unchecked" /\ Len(pre) > 0) =>
          /\ ~ub
          /\ ret[2] = lifo_ref(pre)[2]
          /\ ret[3] = Top(pre)
          /\ stack = pre
    /\ (op = "lifo_mut_unchecked" /\ Len(pre) > 0) =>
          /\ ~ub
          /\ ret[2] = lifo_mut(pre)[2]
          /\ SameBelowTop(stack, pre)
          /\ Top(stack) = arg
    /\ (op = "lifo_unchecked" /\ Len(pre) > 0) =>
          /\ ~ub
          /\ [entries |-> entries, borrow |-> borrow] = lifo(pre, 0)[2]
          /\ stack = pre

C4_Witness ==
    /\ op = "s_pop_unchecked"
    /\ Len(pre) >= 2
    /\ pre[1] # Top(pre)

\* C5: a write of v through an entry (from lifo() or lifo_push) keeps the
\* length, makes v the top and leaves every element below unchanged; a read
\* through the entry after the write yields v; dropping the entry afterwards
\* changes nothing.
C5_WriteThroughEntry ==
    (op \in {"deref_mut", "deref", "entry_drop"} /\ life.wrote # NoArg) =>
        /\ SameBelowTop(stack, life.after)
        /\ Top(stack) = life.wrote
        /\ op = "deref" => ret = <<"Item", life.wrote>>
        /\ op = "entry_drop" => entries = 0

C5_Witness ==
    /\ op = "entry_drop"
    /\ life.wrote # NoArg
    /\ life.read = life.wrote
    /\ Len(stack) >= 2
    /\ Top(life.after) # life.wrote
    /\ stack[1] # life.wrote

\* C6: popping an entry returns the container's last element and removes
\* only it; popping the entry of lifo_push(x) with no write in between
\* returns x and restores the container as it was before the push.
C6_PushEntryPopRoundTrip ==
    op = "entry_pop" =>
        /\ ret = <<"Item", Top(pre)>>
        /\ stack = Front(pre)
        /\ (life.op = "lifo_push" /\ life.wrote = NoArg) =>
              /\ ret = <<"Item", life.arg>>
              /\ stack = life.before

C6_Witness ==
    /\ op = "entry_pop"
    /\ life.op = "lifo_push"
    /\ life.wrote = NoArg
    /\ life.read = NoArg
    /\ Len(stack) >= 1
    /\ Top(stack) # life.arg

\* C7: on an empty container lifo(), s_pop(), lifo_ref() and lifo_mut()
\* return None, produce no entry, raise no error and leave it empty.
C7_EmptyChecked ==
    (op \in {"lifo", "s_pop", "lifo_ref", "lifo_mut"} /\ s_is_empty(pre)) =>
        /\ ret = None
        /\ stack = <<>>
        /\ entries = 0
        /\ borrow = "free"
        /\ ~ub

C7_Witness ==
    /\ op = "lifo"
    /\ s_is_empty(pre)
    /\ ret = None
    /\ Len(hist) >= 2

\* any method called on the container itself
ContainerCall ==
    \/ Call_s_is_empty
    \/ \E item \in Items : Call_s_push(item)
    \/ \E item \in Items : Call_s_push_checked(item)
    \/ \E item \in Items : Call_lifo_push(item)
    \/ Call_s_pop
    \/ Call_lifo
    \/ Call_lifo_ref
    \/ \E v \in Items : Call_lifo_mut(v)

\* C8: while an entry is alive no method of the container can run, at most
\* one entry is alive, and the container changes only through the entry: a
\* write to the top, or the entry's own pop.
C8_Exclusive ==
    /\ entries <= 1
    /\ entries > 0 =>
          /\ ~ENABLED ContainerCall
          /\ op \in {"lifo", "lifo_push", "deref", "deref_mut"}
          /\ op = "deref" => stack = pre
          /\ op = "deref_mut" => (SameBelowTop(stack, pre) /\ Top(stack) = arg)
          /\ SameBelowTop(stack, life.after)
    /\ op = "entry_pop" => stack = Front(pre)
    /\ op = "entry_drop" => stack = pre

C8_Witness ==
    /\ entries = 1
    /\ op = "deref_mut"
    /\ stack # pre
    /\ Len(stack) < MaxLen
    /\ Len(hist) < MaxHist

\* C9: the default s_push_checked(item) returns Some(()) and appends item as
\* the new top, leaving all earlier elements unchanged.
C9_PushCheckedSucceeds ==
    op = "s_push_checked" =>
        /\ ret = Some(Unit)
        /\ Len(stack) = Len(pre) + 1
        /\ Top(stack) = arg
        /\ Front(stack) = pre

C9_Witness ==
    /\ op = "s_push_checked"
    /\ Len(pre) >= 1
    /\ Top(pre) # arg

\* C10: reading through an entry and dropping it without a write leaves the
\* container as it was when the entry was made; each read yields the
\* container's last element; the entry of lifo_push(x) reads as x; lifo()
\* itself does not change the container.
C10_ReadLens ==
    (op \in {"deref", "entry_drop"} /\ life.wrote = NoArg) =>
        /\ stack = life.after
        /\ life.op = "lifo" => life.after = life.before
        /\ op = "deref" => ret = <<"Item", Top(stack)>>
        /\ (op = "deref" /\ life.op = "lifo_push") => ret = <<"Item", life.arg>>

C10_Witness ==
    /\ op = "entry_drop"
    /\ life.op = "lifo"
    /\ life.wrote = NoArg
    /\ life.read # NoArg
    /\ Len(stack) >= 2
    /\ stack[1] # Top(stack)

====
